---- MODULE Spec2Model ----
(***************************************************************************)
(* A model of google-drive-upload-action (src/main.go): one run of main,   *)
(* its inputs, the local files its glob matches, and the remote Drive      *)
(* folder it talks to through the Files.List / Files.Create / Files.Update *)
(* calls.  Strings that the program takes apart (paths, names) are         *)
(* sequences of one-character strings; other strings are TLA+ strings.     *)
(***************************************************************************)
EXTENDS Integers, Sequences, FiniteSets, TLC

VARIABLES
    inputs,            \* the action's inputs, by input name (githubactions.GetInput)
    matches,           \* what filepath.Glob(filename) returns on this machine
    globErr,           \* whether filepath.Glob reports a malformed pattern
    pc,                \* main's position
    files,             \* main: files
    overwriteFlag,     \* main: overwriteFlag
    i,                 \* main: index of the loop over files (1-based)
    fileDir,           \* main: fileDir of the current file
    uploadedFileName,  \* main: uploadedFileName of the current file
    driveFile,         \* main: driveFile (id of the item found, Nil if none)
    msg,               \* the message of the githubactions.Fatalf that ended the run
    warned,            \* whether githubactions.Warningf was called
    links,             \* the links printed by githubactions.Infof
    remote,            \* the items of the remote Drive
    nextId,            \* the remote Drive's supply of fresh ids
    calls,             \* every remote API call issued, in order
    env,               \* what the remote API and the local file system answered, this run
    runNo,             \* which run of the program this is
    start,             \* the remote Drive as the first run found it
    oracle,            \* the answers of the previous run, when this run replays them
    prev               \* the calls and the remote Drive the previous run left

vars == <<inputs, matches, globErr, pc, files, overwriteFlag, i, fileDir,
          uploadedFileName, driveFile, msg, warned, links, remote, nextId,
          calls, env, runNo, start, oracle, prev>>

----------------------------------------------------------------------------
(* Bounds of the model *)

\* the most paths the glob pattern matches
MaxFiles == 2

\* the most runs of the program against the same remote Drive
MaxRuns == 2

----------------------------------------------------------------------------
(* The program's constants, src/main.go:30-41 *)

filenameInput == "filename"
nameInput == "name"
folderIdInput == "folderId"
credentialsInput == "credentials"
overwriteInput == "overwrite"
mimeTypeInput == "mimeType"
useCompleteSourceName == "useCompleteSourceFilenameAsName"
mirrorDirectoryStructure == "mirrorDirectoryStructure"
namePrefixInput == "namePrefix"
folderMimeType == "application/vnd.google-apps.folder"

InputNames == {filenameInput, nameInput, folderIdInput, credentialsInput,
               overwriteInput, mimeTypeInput, useCompleteSourceName,
               mirrorDirectoryStructure, namePrefixInput}

Nil == ""

----------------------------------------------------------------------------
(* Library functions, as the program uses them *)

\* strconv.ParseBool with its error dropped: true for the accepted spellings
\* of true, false for those of false and for anything it cannot parse
ParseBool(s) == s \in {"1", "t", "T", "TRUE", "true", "True"}

\* strings.Replace(s, " ", "\\ ", -1)
RECURSIVE EscapeSpaces(_)
EscapeSpaces(s) ==
    IF s = <<>> THEN <<>>
    ELSE (IF Head(s) = " " THEN <<"\\", " ">> ELSE <<Head(s)>>)
         \o EscapeSpaces(Tail(s))

\* the index of the last "/" of a path, 0 if it has none
LastSlash(p) ==
    LET S == {k \in 1..Len(p) : p[k] = "/"}
    IN  IF S = {} THEN 0 ELSE CHOOSE k \in S : \A j \in S : j <= k

\* filepath.Dir, for the cleaned paths filepath.Glob returns
Dir(p) ==
    LET k == LastSlash(p)
    IN  IF k = 0 THEN <<".">>
        ELSE IF k = 1 THEN <<"/">>
        ELSE SubSeq(p, 1, k - 1)

\* filepath.Base, for the cleaned paths filepath.Glob returns
Base(p) ==
    IF p = <<>> THEN <<".">>
    ELSE SubSeq(p, LastSlash(p) + 1, Len(p))

----------------------------------------------------------------------------
(* The local file system *)

PathAB   == <<"a", "/", "b">>
PathABF  == <<"a", "/", "b", "/", "f">>
PathCDX  == <<"c", " ", "d", "/", "x">>
PathD    == <<"d">>
PathF    == <<"f">>

\* the paths a pattern can match, in the order filepath.Glob lists them
Candidates == <<PathAB, PathABF, PathCDX, PathD, PathF>>

\* os.Lstat(filename).IsDir()
IsDir(p) == p \in {PathAB, PathD}

RECURSIVE Sorted(_)
Sorted(S) ==
    IF S = {} THEN <<>>
    ELSE LET k == CHOOSE x \in S : \A y \in S : x <= y
         IN  <<Candidates[k]>> \o Sorted(S \ {k})

\* the results filepath.Glob can give: up to MaxFiles of the candidate paths
GlobResults ==
    {Sorted(S) : S \in {T \in SUBSET (1..Len(Candidates)) : Cardinality(T) <= MaxFiles}}

----------------------------------------------------------------------------
(* The remote Drive *)

\* the folder the folderId input names
RootFolder == "F"

Item(id, name, parents, mimeType, trashed) ==
    [id |-> id, name |-> name, parents |-> parents, mimeType |-> mimeType,
     trashed |-> trashed]

\* what the Drive can hold before the first run
RemoteStates ==
    { {},
      {Item("e1", PathF, {RootFolder}, "", FALSE)},
      {Item("e1", PathF, {RootFolder}, "", FALSE),
       Item("e2", PathF, {RootFolder}, "", FALSE)},
      {Item("e3", <<"a">>, {RootFolder}, folderMimeType, FALSE)},
      {Item("e4", PathF, {RootFolder}, "", TRUE)} }

\* the id the Drive gives the n-th item created
NewId(n) == "id" \o ToString(n)

\* Files.List().Q("name = '%s' and '%s' in parents and trashed = false")
Matches(rem, name, parentFolderID) ==
    {f \in rem : f.name = name /\ parentFolderID \in f.parents /\ ~f.trashed}

\* the answers Files.List can give: an error, or the matching items, of which
\* findFileByName takes the first (which one that is, the API decides)
ListAnswers(M) ==
    {[res |-> "apiErr", pick |-> Nil]}
    \cup (IF M = {} THEN {[res |-> "ok", pick |-> Nil]}
          ELSE {[res |-> "ok", pick |-> f.id] : f \in M})

\* the answers of a call that returns no choice: res is one of R
Answers(R) == {[res |-> r, pick |-> Nil] : r \in R}

\* Files.Create(f): the Drive with the new item
Created(rem, id, name, mimeType, parent) ==
    rem \cup {Item(id, name, {parent}, mimeType, FALSE)}

\* Files.Update(id, f).AddParents(folderId): the Drive with item id renamed,
\* retyped when a type is given, and attached to folderId
Updated(rem, id, name, mimeType, parent) ==
    {IF f.id = id
     THEN [f EXCEPT !.name = name,
                    !.mimeType = IF mimeType = "" THEN @ ELSE mimeType,
                    !.parents = @ \cup {parent}]
     ELSE f : f \in rem}

\* a remote API call, as logged: the function that issued it, the call, the
\* id it is about (for a lookup the id found, Nil if none), its arguments,
\* whether it succeeded, and the index of the file main was at
Call(by, op, id, name, parent, mimeType, ok) ==
    [by |-> by, op |-> op, id |-> id, name |-> name, parent |-> parent,
     mimeType |-> mimeType, ok |-> ok, i |-> i]

\* an answer is one this run may get: any, unless the run replays the
\* answers of the previous run
Given(o) ==
    oracle.on => /\ Len(env) < Len(oracle.log)
                 /\ oracle.log[Len(env) + 1] = o

----------------------------------------------------------------------------
(* The inputs *)

GetInput(k) == inputs[k]

OverwriteValues == {"", "false", "true", "maybe"}

Config(fn, nm, fid, cr, ow, uc, mi, px) ==
    [k \in InputNames |->
        CASE k = filenameInput -> fn
          [] k = nameInput -> nm
          [] k = folderIdInput -> fid
          [] k = credentialsInput -> cr
          [] k = overwriteInput -> ow
          [] k = mimeTypeInput -> ""
          [] k = useCompleteSourceName -> uc
          [] k = mirrorDirectoryStructure -> mi
          [] k = namePrefixInput -> px]

Init ==
    /\ \E fn \in {"", "*"}, nm \in {<<>>, <<"n">>}, fid \in {"", RootFolder},
          cr \in {"", "creds"}, ow \in OverwriteValues, uc \in {"", "true"},
          mi \in {"", "true"}, px \in {<<>>, <<"p", "-">>} :
            inputs = Config(fn, nm, fid, cr, ow, uc, mi, px)
    /\ globErr \in BOOLEAN
    /\ matches \in GlobResults
    /\ (inputs[filenameInput] = "" \/ globErr) => matches = <<>>
    /\ inputs[filenameInput] = "" => ~globErr
    /\ pc = "filename"
    /\ files = <<>>
    /\ overwriteFlag = FALSE
    /\ i = 1
    /\ fileDir = <<>>
    /\ uploadedFileName = <<>>
    /\ driveFile = Nil
    /\ msg = ""
    /\ warned = FALSE
    /\ links = <<>>
    /\ remote \in RemoteStates
    /\ nextId = 1
    /\ calls = <<>>
    /\ env = <<>>
    /\ runNo = 1
    /\ start = remote
    /\ oracle = [on |-> FALSE, log |-> <<>>]
    /\ prev = [calls |-> <<>>, remote |-> {}, overwriteFlag |-> FALSE]

----------------------------------------------------------------------------
(* main, up to the loop: src/main.go:83-148 *)

\* missingInput's message
missingInput(inputName) == "Input " \o inputName \o " is missing or empty"

\* githubactions.Fatalf: log the message and exit
Fatalf(text) == pc' = "exit" /\ msg' = text

useCompleteSourceNameFlag == ParseBool(GetInput(useCompleteSourceName))
mirrorDirectoryStructureFlag == ParseBool(GetInput(mirrorDirectoryStructure))

ReadFilename ==
    /\ pc = "filename"
    /\ LET filename == GetInput(filenameInput)
       IN  IF filename = "" THEN Fatalf(missingInput(filenameInput)) /\ files' = files
           ELSE IF globErr THEN Fatalf("Invalid filename pattern") /\ files' = files
           ELSE IF Len(matches) = 0
                THEN Fatalf("No file found! pattern: " \o filename) /\ files' = files
           ELSE files' = matches /\ pc' = "overwrite" /\ msg' = msg
    /\ UNCHANGED <<inputs, matches, globErr, overwriteFlag, i, fileDir,
                   uploadedFileName, driveFile, warned, links, remote, nextId,
                   calls, env, runNo, start, oracle, prev>>

ReadOverwrite ==
    /\ pc = "overwrite"
    /\ LET overwrite == GetInput(overwriteInput)
       IN  IF overwrite = ""
           THEN warned' = TRUE /\ overwriteFlag' = FALSE
           ELSE warned' = warned /\ overwriteFlag' = ParseBool(overwrite)
    /\ pc' = "folderId"
    /\ UNCHANGED <<inputs, matches, globErr, files, i, fileDir,
                   uploadedFileName, driveFile, msg, links, remote, nextId,
                   calls, env, runNo, start, oracle, prev>>

\* ReadFolderId with the check of the input left out
ReadFolderIdUnchecked ==
    /\ pc = "folderId"
    /\ pc' = "credentials"
    /\ UNCHANGED <<inputs, matches, globErr, files, overwriteFlag, i, fileDir,
                   uploadedFileName, driveFile, msg, warned, links, remote,
                   nextId, calls, env, runNo, start, oracle, prev>>

ReadFolderId ==
    /\ pc = "folderId"
    /\ IF GetInput(folderIdInput) = ""
       THEN Fatalf(missingInput(folderIdInput))
       ELSE pc' = "credentials" /\ msg' = msg
    /\ UNCHANGED <<inputs, matches, globErr, files, overwriteFlag, i, fileDir,
                   uploadedFileName, driveFile, warned, links, remote, nextId,
                   calls, env, runNo, start, oracle, prev>>

ReadCredentials ==
    /\ pc = "credentials"
    /\ IF GetInput(credentialsInput) = ""
       THEN Fatalf(missingInput(credentialsInput))
       ELSE pc' = "auth" /\ msg' = msg
    /\ UNCHANGED <<inputs, matches, globErr, files, overwriteFlag, i, fileDir,
                   uploadedFileName, driveFile, warned, links, remote, nextId,
                   calls, env, runNo, start, oracle, prev>>

\* decode the credentials, build the JWT config and the Drive service client
Authenticate ==
    /\ pc = "auth"
    /\ \E o \in Answers({"ok", "decodeErr", "jwtErr", "serviceErr"}) :
        /\ Given(o)
        /\ env' = Append(env, o)
        /\ CASE o.res = "ok" -> pc' = "loop" /\ msg' = msg
             [] o.res = "decodeErr" -> Fatalf("Failed to decode credentials")
             [] o.res = "jwtErr" -> Fatalf("Failed to create JWT config")
             [] o.res = "serviceErr" -> Fatalf("Failed to create Drive service client")
    /\ UNCHANGED <<inputs, matches, globErr, files, overwriteFlag, i, fileDir,
                   uploadedFileName, driveFile, warned, links, remote, nextId,
                   calls, runNo, start, oracle, prev>>

----------------------------------------------------------------------------
(* main's loop over the matched files: src/main.go:151-195 *)

\* ResolveName with the explicit name tried before the prefix
ResolveNameExplicitFirst(file) ==
    IF ParseBool(GetInput(useCompleteSourceName)) THEN file
    ELSE LET baseFileName == Base(file)
         IN  IF GetInput(nameInput) # <<>> THEN GetInput(nameInput)
             ELSE IF GetInput(namePrefixInput) # <<>>
                THEN GetInput(namePrefixInput) \o baseFileName
             ELSE baseFileName

\* the name of the uploaded file, src/main.go:166-179
ResolveName(file) ==
    IF useCompleteSourceNameFlag THEN file
    ELSE LET baseFileName == Base(file)
         IN  IF GetInput(namePrefixInput) # <<>>
                THEN GetInput(namePrefixInput) \o baseFileName
             ELSE IF GetInput(nameInput) # <<>> THEN GetInput(nameInput)
             ELSE baseFileName

\* the canonical viewer link of an item, src/main.go:77
Link(id) == "https://drive.google.com/file/d/" \o id \o "/view"

\* the loop takes the next file: escape its name and, when mirroring, take
\* the directory of the escaped name
BeginFile ==
    /\ pc = "loop"
    /\ i <= Len(files)
    /\ LET escapedName == EscapeSpaces(files[i])
           dir == Dir(escapedName)
       IN  IF mirrorDirectoryStructureFlag
           THEN /\ fileDir' = dir
                /\ pc' = IF dir # <<".">> THEN "mirrorFind" ELSE "find"
           ELSE /\ fileDir' = <<>>
                /\ pc' = "find"
    /\ UNCHANGED <<inputs, matches, globErr, files, overwriteFlag, i,
                   uploadedFileName, driveFile, msg, warned, links, remote,
                   nextId, calls, env, runNo, start, oracle, prev>>

\* the loop has no file left: main returns
Finish ==
    /\ pc = "loop"
    /\ i > Len(files)
    /\ pc' = "done"
    /\ UNCHANGED <<inputs, matches, globErr, files, overwriteFlag, i, fileDir,
                   uploadedFileName, driveFile, msg, warned, links, remote,
                   nextId, calls, env, runNo, start, oracle, prev>>

\* AfterLookup with the folder created whether or not one was found
AfterLookupCreate(folder) == "mirrorCreate"

\* createDriveDirectory: a folder that was found is returned, and only a
\* missing one is created, src/main.go:203-205
AfterLookup(folder) == IF folder # Nil THEN "find" ELSE "mirrorCreate"

\* createDriveDirectory(svc, folderId, fileDir), its lookup:
\* src/main.go:159-162, 199-205
MirrorLookup ==
    /\ pc = "mirrorFind"
    /\ LET parentFolderID == GetInput(folderIdInput)
           folderName == fileDir
       IN  \E o \in ListAnswers(Matches(remote, folderName, parentFolderID)) :
            /\ Given(o)
            /\ env' = Append(env, o)
            /\ calls' = Append(calls, Call("createDriveDirectory", "list", o.pick, folderName,
                                           parentFolderID, "", o.res = "ok"))
            /\ IF o.res # "ok"
               THEN Fatalf("Failed to create directory structure on Google Drive")
               ELSE /\ pc' = AfterLookup(o.pick)
                    /\ msg' = msg
    /\ UNCHANGED <<inputs, matches, globErr, files, overwriteFlag, i, fileDir,
                   uploadedFileName, driveFile, warned, links, remote, nextId,
                   runNo, start, oracle, prev>>

\* createDriveDirectory, its Files.Create of the folder: src/main.go:207-218;
\* main drops the id it returns (src/main.go:159)
MirrorCreate ==
    /\ pc = "mirrorCreate"
    /\ LET parentFolderID == GetInput(folderIdInput)
           folderName == fileDir
       IN  \E o \in Answers({"ok", "apiErr"}) :
            /\ Given(o)
            /\ env' = Append(env, o)
            /\ IF o.res # "ok"
               THEN /\ calls' = Append(calls, Call("createDriveDirectory", "create", Nil, folderName,
                                       parentFolderID, folderMimeType, FALSE))
                    /\ Fatalf("Failed to create directory structure on Google Drive")
                    /\ UNCHANGED <<remote, nextId>>
               ELSE /\ calls' = Append(calls, Call("createDriveDirectory", "create", NewId(nextId),
                                       folderName,
                                       parentFolderID, folderMimeType, TRUE))
                    /\ remote' = Created(remote, NewId(nextId), folderName,
                                         folderMimeType, parentFolderID)
                    /\ nextId' = nextId + 1
                    /\ pc' = "find"
                    /\ msg' = msg
    /\ UNCHANGED <<inputs, matches, globErr, files, overwriteFlag, i, fileDir,
                   uploadedFileName, driveFile, warned, links, runNo, start,
                   oracle, prev>>

\* resolve the name of the uploaded file and look it up in the folder:
\* src/main.go:166-185, 221-231
FindExisting ==
    /\ pc = "find"
    /\ LET name == ResolveName(files[i])
           folderId == GetInput(folderIdInput)
       IN  /\ uploadedFileName' = name
           /\ \E o \in ListAnswers(Matches(remote, name, folderId)) :
                /\ Given(o)
                /\ env' = Append(env, o)
                /\ calls' = Append(calls, Call("main", "list", o.pick, name, folderId,
                                               "", o.res = "ok"))
                /\ IF o.res # "ok"
                   THEN /\ Fatalf("Failed to check existing files in the folder")
                        /\ driveFile' = Nil
                   ELSE /\ driveFile' = o.pick
                        /\ pc' = "upload"
                        /\ msg' = msg
    /\ UNCHANGED <<inputs, matches, globErr, files, overwriteFlag, i, fileDir,
                   warned, links, remote, nextId, runNo, start, oracle, prev>>

\* the answers uploadToDrive can get for a file: Lstat fails; for a directory
\* nothing else is asked; for a file, Open fails, or the API call fails or not
UploadAnswers(filename) ==
    IF IsDir(filename) THEN Answers({"lstatErr", "ok"})
    ELSE Answers({"lstatErr", "openErr", "apiErr", "ok"})

\* UploadOp with the item found ignored: always a create
UploadOpCreate(drvFile) == "create"

\* UploadOp with the update gated by the overwrite flag
UploadOpIfOverwrite(drvFile) ==
    IF drvFile # Nil /\ overwriteFlag THEN "update" ELSE "create"

\* uploadToDrive: update the item found, create one if none was found,
\* src/main.go:57-71
UploadOp(drvFile) == IF drvFile # Nil THEN "update" ELSE "create"

\* UploadFailed with the error logged and the loop going on to the next file
UploadFailedContinue ==
    /\ pc' = "loop"
    /\ i' = i + 1
    /\ msg' = msg
    /\ links' = links

\* main, when uploadToDrive returns an error: src/main.go:189-191
UploadFailed ==
    /\ Fatalf("Failed to upload file to Google Drive")
    /\ UNCHANGED <<i, links>>

\* uploadToDrive(svc, file, folderId, driveFile, uploadedFileName, mimeType)
\* and the end of the loop body: src/main.go:187-194, 43-79
Upload ==
    /\ pc = "upload"
    /\ LET filename == files[i]
           folderId == GetInput(folderIdInput)
           name == uploadedFileName
           mimeType == GetInput(mimeTypeInput)
           op == UploadOp(driveFile)
           id == IF op = "update" THEN driveFile ELSE NewId(nextId)
       IN  \E o \in UploadAnswers(filename) :
            /\ Given(o)
            /\ env' = Append(env, o)
            /\ CASE o.res \in {"lstatErr", "openErr"} ->
                    /\ UploadFailed
                    /\ UNCHANGED <<remote, nextId, calls>>
                 [] o.res = "ok" /\ IsDir(filename) ->
                    /\ links' = Append(links, "")
                    /\ i' = i + 1
                    /\ pc' = "loop"
                    /\ UNCHANGED <<msg, remote, nextId, calls>>
                 [] o.res = "apiErr" ->
                    /\ calls' = Append(calls,
                          Call("uploadToDrive", op,
                               IF op = "update" THEN driveFile ELSE Nil,
                               name, folderId, mimeType, FALSE))
                    /\ UploadFailed
                    /\ UNCHANGED <<remote, nextId>>
                 [] o.res = "ok" /\ ~IsDir(filename) ->
                    /\ calls' = Append(calls,
                          Call("uploadToDrive", op, id, name, folderId, mimeType, TRUE))
                    /\ remote' = IF op = "update"
                                 THEN Updated(remote, id, name, mimeType, folderId)
                                 ELSE Created(remote, id, name, mimeType, folderId)
                    /\ nextId' = IF op = "update" THEN nextId ELSE nextId + 1
                    /\ links' = Append(links, Link(id))
                    /\ i' = i + 1
                    /\ pc' = "loop"
                    /\ msg' = msg
    /\ UNCHANGED <<inputs, matches, globErr, files, overwriteFlag, fileDir,
                   uploadedFileName, driveFile, warned, runNo, start, oracle, prev>>

----------------------------------------------------------------------------
(* One run of the program *)

Next ==
    \/ ReadFilename
    \/ ReadOverwrite
    \/ ReadFolderId
    \/ ReadCredentials
    \/ Authenticate
    \/ BeginFile
    \/ Finish
    \/ MirrorLookup
    \/ MirrorCreate
    \/ FindExisting
    \/ Upload

Spec == Init /\ [][Next]_vars

----------------------------------------------------------------------------
(* Runs of the program one after another *)

\* main starts again: its variables are as at the start of a run
Restart ==
    /\ pc' = "filename"
    /\ files' = <<>>
    /\ overwriteFlag' = FALSE
    /\ i' = 1
    /\ fileDir' = <<>>
    /\ uploadedFileName' = <<>>
    /\ driveFile' = Nil
    /\ msg' = ""
    /\ warned' = FALSE
    /\ links' = <<>>
    /\ calls' = <<>>
    /\ env' = <<>>
    /\ runNo' = runNo + 1
    /\ prev' = [calls |-> calls, remote |-> remote, overwriteFlag |-> overwriteFlag]

\* a run that completed is repeated with the same inputs and the same local
\* files, against the remote Drive it left
Repeat ==
    /\ pc = "done"
    /\ runNo < MaxRuns
    /\ Restart
    /\ UNCHANGED <<inputs, matches, globErr, remote, nextId, start, oracle>>

\* the overwrite values in a cycle: each run is followed by one with the next
NextOverwrite(v) ==
    CASE v = "" -> "false"
      [] v = "false" -> "true"
      [] v = "true" -> "maybe"
      [] v = "maybe" -> ""

\* a run that ended is run again from the same remote Drive, with the same
\* local files and the same answers of the API and the file system, and with
\* another value of the overwrite input
Replay ==
    /\ pc \in {"done", "exit"}
    /\ runNo < MaxRuns
    /\ Restart
    /\ inputs' = [inputs EXCEPT ![overwriteInput] = NextOverwrite(@)]
    /\ remote' = start
    /\ nextId' = 1
    /\ oracle' = [on |-> TRUE, log |-> env]
    /\ UNCHANGED <<matches, globErr, start>>

SpecRepeat == Init /\ [][Next \/ Repeat]_vars

SpecReplay == Init /\ [][Next \/ Replay]_vars

----------------------------------------------------------------------------
(* What the properties are stated in *)

RequiredInputs == {filenameInput, folderIdInput, credentialsInput}

MissingInputs == {k \in RequiredInputs : inputs[k] = ""}

\* the positions of main while it reads its inputs, before it authenticates
ReadingInputs == {"filename", "overwrite", "folderId", "credentials"}

\* the calls uploadToDrive issued
UploadCalls == {k \in 1..Len(calls) : calls[k].by = "uploadToDrive"}

\* the calls that create an item and succeeded
CreatedCalls == {k \in 1..Len(calls) : calls[k].op = "create" /\ calls[k].ok}

\* the file calls[k] was issued for
FileOf(k) == files[calls[k].i]

\* whether the mirror builder is invoked for file f
Mirrored(f) == mirrorDirectoryStructureFlag /\ Dir(EscapeSpaces(f)) # <<".">>

\* the calls the mirror builder issued for the file of index j
MirrorCalls(j) ==
    {k \in 1..Len(calls) : calls[k].by = "createDriveDirectory" /\ calls[k].i = j}

HasSlash(name) == \E k \in 1..Len(name) : name[k] = "/"

----------------------------------------------------------------------------
(* C1 *)

\* C1: every call uploadToDrive issues comes right after main's successful
\* existence check for the same file, name and folder; it is an update of the
\* item found when the check found one and a create (with the resolved name,
\* in that folder) when it found none; there is one such call per file, every
\* regular file already passed has a successful one, an updated item keeps its
\* id, and the Drive gains exactly the items that were created.
C1_ExistenceDrivesUpload ==
    /\ \A k \in UploadCalls :
        /\ k > 1
        /\ LET chk == calls[k - 1]
               c == calls[k]
           IN  /\ chk.by = "main" /\ chk.op = "list" /\ chk.ok
               /\ chk.i = c.i /\ chk.name = c.name /\ chk.parent = c.parent
               /\ chk.id # Nil => c.op = "update" /\ c.id = chk.id
               /\ chk.id = Nil =>
                    /\ c.op = "create"
                    /\ c.name = ResolveName(FileOf(k))
                    /\ c.parent = GetInput(folderIdInput)
               /\ (c.op = "update" /\ c.ok) => \E f \in remote : f.id = c.id
        /\ \A j \in UploadCalls : calls[j].i = calls[k].i => j = k
    /\ pc \in {"loop", "mirrorFind", "mirrorCreate", "find", "upload", "done"} =>
        \A j \in 1..(i - 1) :
            ~IsDir(files[j]) => \E k \in UploadCalls : calls[k].i = j /\ calls[k].ok
    /\ Cardinality(remote) = Cardinality(start) + Cardinality(CreatedCalls)

\* C1 witness: one run has updated an item it found and created one it did not
C1_Witness ==
    \E j, k \in UploadCalls :
        /\ calls[j].op = "update" /\ calls[j].ok
        /\ calls[k].op = "create" /\ calls[k].ok

----------------------------------------------------------------------------
(* C2 *)

\* C2 as claimed: with a required input empty the run never gets past the
\* reading of the inputs, issues no call, and, once it has aborted, its message
\* names an input that is missing
C2_Original ==
    MissingInputs # {} =>
        /\ pc \in ReadingInputs \cup {"exit"}
        /\ calls = <<>> /\ env = <<>>
        /\ pc = "exit" => \E k \in MissingInputs : msg = missingInput(k)

\* C2 as amended: with a required input empty the run never gets past the
\* reading of the inputs and issues no call; its message names filename when
\* filename is empty; when filename is not empty and the pattern is malformed
\* or matches nothing, the message is that of the glob failure; otherwise it
\* names folderId when that is empty, and credentials when only that is empty
C2_AbortsBeforeAnyCall ==
    MissingInputs # {} =>
        /\ pc \in ReadingInputs \cup {"exit"}
        /\ calls = <<>> /\ env = <<>>
        /\ pc = "exit" =>
            msg = IF inputs[filenameInput] = "" THEN missingInput(filenameInput)
                  ELSE IF globErr THEN "Invalid filename pattern"
                  ELSE IF matches = <<>>
                       THEN "No file found! pattern: " \o inputs[filenameInput]
                  ELSE IF inputs[folderIdInput] = "" THEN missingInput(folderIdInput)
                  ELSE missingInput(credentialsInput)

\* C2 witness: a run whose pattern matched files has aborted on the missing
\* folderId, and names it
C2_Witness ==
    /\ pc = "exit"
    /\ files # <<>>
    /\ inputs[folderIdInput] = ""
    /\ msg = missingInput(folderIdInput)

----------------------------------------------------------------------------
(* C3 *)

\* C3 as claimed: with "use complete source path as name" enabled, the name of
\* the existence check and of the upload is the matched path with every space
\* escaped by a backslash
C3_Original ==
    useCompleteSourceNameFlag =>
        \A k \in 1..Len(calls) :
            calls[k].by \in {"main", "uploadToDrive"} =>
                calls[k].name = EscapeSpaces(FileOf(k))

----------------------------------------------------------------------------
(* C4 *)

\* C4: with "use complete source path as name" disabled, the name of the
\* existence check and of the upload of every file is prefix + base name when
\* the prefix is not empty, whatever the explicit name; else the explicit name
\* when that is not empty, the same for every file; else the base name
C4_NamePrecedence ==
    ~useCompleteSourceNameFlag =>
        \A k \in 1..Len(calls) :
            calls[k].by \in {"main", "uploadToDrive"} =>
                LET prefix == inputs[namePrefixInput]
                    explicit == inputs[nameInput]
                    base == Base(FileOf(k))
                IN  /\ prefix # <<>> => calls[k].name = prefix \o base
                    /\ (prefix = <<>> /\ explicit # <<>>) => calls[k].name = explicit
                    /\ (prefix = <<>> /\ explicit = <<>>) => calls[k].name = base

\* C4 witness: a run with an explicit name and no prefix has uploaded two
\* files under that one name, and the files differ
C4_Witness ==
    /\ ~useCompleteSourceNameFlag
    /\ inputs[namePrefixInput] = <<>>
    /\ inputs[nameInput] # <<>>
    /\ \E j, k \in UploadCalls :
        /\ calls[j].i # calls[k].i
        /\ Base(FileOf(j)) # Base(FileOf(k))
        /\ calls[j].name = inputs[nameInput]
        /\ calls[k].name = inputs[nameInput]

----------------------------------------------------------------------------
(* C5 *)

\* C5 as claimed: no remote call is issued for a matched path that is a
\* directory
C5_Original ==
    \A k \in 1..Len(calls) : ~IsDir(FileOf(k))

----------------------------------------------------------------------------
(* C6 *)

\* C6 as claimed: the mirror builder looks up and creates one folder per
\* segment of the directory, each named with that single segment, never one
\* folder named with the whole directory path
C6_Original ==
    \A k \in 1..Len(calls) :
        calls[k].by = "createDriveDirectory" => ~HasSlash(calls[k].name)

----------------------------------------------------------------------------
(* C7 *)

\* C7 as claimed: for a file the mirror builder is invoked for, the existence
\* check and the upload use the folder the mirror builder returned (the one
\* its last call found or created); for any other file they use the folder of
\* the folderId input
C7_Original ==
    \A k \in 1..Len(calls) :
        calls[k].by \in {"main", "uploadToDrive"} =>
            IF Mirrored(FileOf(k))
            THEN \E m \in MirrorCalls(calls[k].i) :
                    /\ \A n \in MirrorCalls(calls[k].i) : n <= m
                    /\ calls[k].parent = calls[m].id
            ELSE calls[k].parent = GetInput(folderIdInput)

----------------------------------------------------------------------------
(* C8 *)

\* C8: the files are taken in the order of the glob expansion, one at a time;
\* an answer of the API or of the local file system that is a failure is the
\* last answer the run gets and a failed call is the last call it issues (no
\* later call, no retry), and the run has exited
C8_FirstFailureIsFatal ==
    /\ pc \notin {"filename"} /\ msg = "" => files = matches
    /\ \A j, k \in 1..Len(calls) : j <= k => calls[j].i <= calls[k].i
    /\ \A k \in 1..Len(calls) : calls[k].i <= i
    /\ \A k \in 1..Len(env) : env[k].res # "ok" => k = Len(env) /\ pc = "exit"
    /\ \A k \in 1..Len(calls) : ~calls[k].ok => k = Len(calls) /\ pc = "exit"

\* C8 witness: a call has failed while a later matched file was still waiting,
\* and the run has exited
C8_Witness ==
    /\ pc = "exit"
    /\ calls # <<>>
    /\ ~calls[Len(calls)].ok
    /\ i < Len(files)

----------------------------------------------------------------------------
(* C9, under SpecReplay *)

\* C9: a run that differs from the previous one only in the overwrite input
\* (same remote Drive at the start, same local files, same answers) issues the
\* calls of the previous run, in the same order, is never left without a next
\* step before it ends, and ends with the same calls issued and the same
\* remote Drive; and with the overwrite flag false an item the existence check
\* found is still updated in place
C9_OverwriteHasNoInfluence ==
    /\ runNo > 1 =>
        /\ Len(calls) <= Len(prev.calls)
        /\ \A k \in 1..Len(calls) : calls[k] = prev.calls[k]
        /\ pc \notin {"done", "exit"} => ENABLED Next
        /\ pc \in {"done", "exit"} => calls = prev.calls /\ remote = prev.remote
    /\ ~overwriteFlag =>
        \A k \in UploadCalls :
            (k > 1 /\ calls[k - 1].id # Nil) =>
                calls[k].op = "update" /\ calls[k].id = calls[k - 1].id

\* C9 witness: a run with the overwrite flag false has ended after one with
\* the flag true, and has updated an item in place
C9_Witness ==
    /\ runNo > 1
    /\ pc = "done"
    /\ ~overwriteFlag /\ prev.overwriteFlag
    /\ \E k \in UploadCalls : calls[k].op = "update" /\ calls[k].ok

----------------------------------------------------------------------------
(* C10, under SpecRepeat *)

\* C10: a run that repeats a completed run with the same inputs and local
\* files against the remote Drive that run left issues no create call, for a
\* file or for a folder: its uploads are updates of items the Drive already
\* held, and the items of the Drive stay as the previous run left them
C10_RepeatCreatesNothing ==
    runNo > 1 =>
        /\ \A k \in 1..Len(calls) : calls[k].op # "create"
        /\ \A k \in UploadCalls :
            /\ calls[k].op = "update"
            /\ \E f \in prev.remote : f.id = calls[k].id
        /\ remote = prev.remote

\* C10 witness: the repeat of a run that created a folder and a file has
\* completed, having found the folder and updated the file
C10_Witness ==
    /\ runNo > 1
    /\ pc = "done"
    /\ \E k \in 1..Len(prev.calls) :
        /\ prev.calls[k].by = "createDriveDirectory"
        /\ prev.calls[k].op = "create" /\ prev.calls[k].ok
    /\ \E k \in 1..Len(prev.calls) :
        /\ prev.calls[k].by = "uploadToDrive"
        /\ prev.calls[k].op = "create" /\ prev.calls[k].ok
    /\ \E k \in UploadCalls : calls[k].op = "update" /\ calls[k].ok
    /\ \E k \in 1..Len(calls) :
        calls[k].by = "createDriveDirectory" /\ calls[k].id # Nil

====
